---------------------------- MODULE Spec2Model ----------------------------
(***************************************************************************)
(* A model of the kata functions of src/task/10-katas-1-tasks.js and       *)
(* src/task/11-katas-2-tasks.js, and of the selector builder of            *)
(* src/task/08-objects-tasks.js.  Every function is independent of the     *)
(* others, so each has its own variables, its own actions and its own      *)
(* specification (SpecDominoes, SpecPoker, ...); the variables of the      *)
(* other functions stay at their idle values.                              *)
(*                                                                         *)
(* JavaScript strings are modelled as sequences of one-character strings,  *)
(* JavaScript arrays as sequences, sparse arrays as functions whose domain *)
(* is the set of indices that hold a value.                                *)
(***************************************************************************)
EXTENDS Integers, Sequences, FiniteSets, TLC

VARIABLES
    pc,             \* position of the running call
    dominoes,       \* canDominoesMakeRow: the argument
    gameRow,        \* canDominoesMakeRow: the sparse array gameRow
    domIdx,         \* canDominoesMakeRow: number of tiles forEach has visited
    domRet,         \* canDominoesMakeRow: the returned boolean
    hand,           \* getPokerHandRank: the argument, an array of card strings
    pokerRank,      \* getPokerHandRank: the returned rank
    str,            \* expandBraces: the argument
    combinations,   \* expandBraces: findBracets' working array
    flag,           \* expandBraces: findBracets' loop flag
    passes,         \* expandBraces: passes of the while loop run so far
    braceSet,       \* expandBraces: the Set being iterated, in insertion order
    braceOut,       \* expandBraces: the strings yielded so far
    n,              \* getZigZagMatrix: the argument
    zigStep,        \* getZigZagMatrix: step
    diagonalLength, \* getZigZagMatrix: diagonalLength
    counter,        \* getZigZagMatrix: counter
    diagonals,      \* getZigZagMatrix: the array of diagonals
    zigZagMatrix,   \* getZigZagMatrix: the matrix being filled
    zi,             \* getZigZagMatrix: loop variable i
    zj,             \* getZigZagMatrix: loop variable j
    nums,           \* extractRanges: the caller's array
    numsBefore,     \* extractRanges: the caller's array as first passed
    rangesRet,      \* extractRanges: the string returned by the last call
    calls,          \* extractRanges: number of calls made on nums
    bankAccount,    \* parseBankAccount: the argument
    bankDigits,     \* parseBankAccount: the digits the argument was drawn from
    bankRet,        \* parseBankAccount: the returned number
    text,           \* wrapText: the argument text
    columns,        \* wrapText: the argument columns
    lines,          \* wrapText: the array returned by text.match
    wrapOut,        \* wrapText: the lines yielded so far
    figure,         \* getFigureRectangles: the argument
    figTiling,      \* getFigureRectangles: the tiling the argument draws
    figLines,       \* getFigureRectangles: figure.split
    figIdx,         \* getFigureRectangles: lines the for loop has visited
    height,         \* getFigureRectangles: height
    widths,         \* getFigureRectangles: widths
    figOut,         \* getFigureRectangles: the rectangles yielded so far
    selId,          \* ElementNode: _id
    selElement,     \* ElementNode: _element
    selClasses,     \* ElementNode: _classes
    selAttrs,       \* ElementNode: _attrs
    selPseudoClasses, \* ElementNode: _pseudoClasses
    selPseudoElement, \* ElementNode: _pseudoElement
    selLastOperation, \* ElementNode: _lastOperation
    selParts,       \* ElementNode: the calls that returned, <<kind, value>>
    selLast         \* ElementNode: the last call made and how it ended

domVars == <<dominoes, gameRow, domIdx, domRet>>
pokerVars == <<hand, pokerRank>>
braceVars == <<str, combinations, flag, passes, braceSet, braceOut>>
zigVars == <<n, zigStep, diagonalLength, counter, diagonals, zigZagMatrix,
             zi, zj>>
rangeVars == <<nums, numsBefore, rangesRet, calls>>
bankVars == <<bankAccount, bankDigits, bankRet>>
wrapVars == <<text, columns, lines, wrapOut>>
figVars == <<figure, figTiling, figLines, figIdx, height, widths, figOut>>
selVars == <<selId, selElement, selClasses, selAttrs, selPseudoClasses,
             selPseudoElement, selLastOperation, selParts, selLast>>
vars == <<pc, domVars, pokerVars, braceVars, zigVars, rangeVars, bankVars,
          wrapVars, figVars, selVars>>

\* The variables of all the functions but one.
notDom == <<pokerVars, braceVars, zigVars, rangeVars, bankVars, wrapVars,
            figVars, selVars>>
notPoker == <<domVars, braceVars, zigVars, rangeVars, bankVars, wrapVars,
              figVars, selVars>>
notBrace == <<domVars, pokerVars, zigVars, rangeVars, bankVars, wrapVars,
              figVars, selVars>>
notZig == <<domVars, pokerVars, braceVars, rangeVars, bankVars, wrapVars,
            figVars, selVars>>
notRange == <<domVars, pokerVars, braceVars, zigVars, bankVars, wrapVars,
              figVars, selVars>>
notBank == <<domVars, pokerVars, braceVars, zigVars, rangeVars, wrapVars,
             figVars, selVars>>
notWrap == <<domVars, pokerVars, braceVars, zigVars, rangeVars, bankVars,
             figVars, selVars>>
notFig == <<domVars, pokerVars, braceVars, zigVars, rangeVars, bankVars,
            wrapVars, selVars>>
notSel == <<domVars, pokerVars, braceVars, zigVars, rangeVars, bankVars,
            wrapVars, figVars>>

--------------------------------------------------------------------------
(* Helpers shared by the models.                                           *)

Range(s) == {s[i] : i \in DOMAIN s}

\* All sequences over S of length lo..hi.
SeqsBetween(S, lo, hi) == UNION {[1..k -> S] : k \in lo..hi}

--------------------------------------------------------------------------
(* canDominoesMakeRow, src/task/10-katas-1-tasks.js:186-201                *)

MaxPip == 2
MaxTiles == 4

Pips == 0..MaxPip
Tiles == Pips \X Pips

RowEmpty == [p \in {} |-> 0]

\* addMove: row[domino] = row[domino] ? row[domino] + count : count
\* (a hole and a stored 0 are both falsy).
addMove(row, domino, count) ==
    LET new == IF domino \in DOMAIN row /\ row[domino] # 0
               THEN row[domino] + count
               ELSE count
    IN [p \in DOMAIN row \cup {domino} |-> IF p = domino THEN new ELSE row[p]]

\* The body of the forEach callback for one tile.
domForEachBody(row, domino) ==
    LET leftSide == domino[1]
        rightSide == domino[2]
        shift == IF leftSide = rightSide THEN -1 ELSE 1
    IN addMove(addMove(row, leftSide, shift), rightSide, shift)

\* gameRow.reduce((acc, val) => val < 0 || val % 2 ? acc + 1 : acc, 0):
\* reduce visits only the indices that hold a value.
nonPairSide(row) ==
    Cardinality({p \in DOMAIN row : row[p] < 0 \/ row[p] % 2 # 0})

DomInit ==
    /\ dominoes \in SeqsBetween(Tiles, 1, MaxTiles)
    /\ gameRow = RowEmpty
    /\ domIdx = 0
    /\ domRet = "none"

DomIdle ==
    /\ dominoes = <<>>
    /\ gameRow = RowEmpty
    /\ domIdx = 0
    /\ domRet = "none"

\* One iteration of dominoes.forEach.
DomForEach ==
    /\ pc = "dominoes"
    /\ domIdx < Len(dominoes)
    /\ gameRow' = domForEachBody(gameRow, dominoes[domIdx + 1])
    /\ domIdx' = domIdx + 1
    /\ UNCHANGED <<pc, dominoes, domRet, notDom>>

\* The reduce and the return.
DomReturn ==
    /\ pc = "dominoes"
    /\ domIdx = Len(dominoes)
    /\ domRet' = (nonPairSide(gameRow) < 3)
    /\ pc' = "done"
    /\ UNCHANGED <<dominoes, gameRow, domIdx, notDom>>

--------------------------------------------------------------------------
(* getPokerHandRank, src/task/11-katas-2-tasks.js:113-163                  *)

\* The enum PokerRank.
StraightFlush == 8
FourOfKind == 7
FullHouse == 6
Flush == 5
Straight == 4
ThreeOfKind == 3
TwoPairs == 2
OnePair == 1
HighCard == 0

\* The four suit characters of the doc examples (hearts, diamonds, clubs,
\* spades), written in ASCII.
Suits == {"H", "D", "C", "S"}

Digits == <<"0", "1", "2", "3", "4", "5", "6", "7", "8", "9">>

IsDigit(c) == \E d \in 1..10 : Digits[d] = c
DigitVal(c) == (CHOOSE d \in 1..10 : Digits[d] = c) - 1

\* Array.prototype.indexOf: the first 0-based index holding x, or -1.
indexOf(arr, x) ==
    IF \E i \in 1..Len(arr) : arr[i] = x
    THEN (CHOOSE i \in 1..Len(arr) :
              arr[i] = x /\ \A j \in 1..(i - 1) : arr[j] # x) - 1
    ELSE -1

\* parseInt(s) for a string without sign or leading blanks: <<v>> for the
\* value v of the longest prefix of decimal digits, << >> (NaN) when the
\* first character is no digit.
RECURSIVE digitsValue(_, _)
digitsValue(s, acc) ==
    IF s = <<>> \/ ~IsDigit(Head(s)) THEN acc
    ELSE digitsValue(Tail(s), acc * 10 + DigitVal(Head(s)))

parseInt(s) ==
    IF s = <<>> \/ ~IsDigit(Head(s)) THEN <<>> ELSE <<digitsValue(s, 0)>>

\* let numbers = ['2', ..., 'K'], line 126.
numbersBase ==
    << <<"2">>, <<"3">>, <<"4">>, <<"5">>, <<"6">>, <<"7">>, <<"8">>,
       <<"9">>, <<"1", "0">>, <<"J">>, <<"Q">>, <<"K">> >>

\* Mutant of numbersFor: the ace is always the highest rank.
numbersForAceHigh(h) == numbersBase \o << <<"A">> >>

\* Line 127: the ace goes first when some card parses to 2, last otherwise.
numbersFor(h) ==
    IF \E i \in 1..Len(h) : parseInt(h[i]) = <<2>>
    THEN << <<"A">> >> \o numbersBase
    ELSE numbersBase \o << <<"A">> >>

getNumber(card) == SubSeq(card, 1, Len(card) - 1)
getType(card) == card[Len(card)]

\* countEqualTypes: the reduce of lines 134-137.
RECURSIVE countEqualTypesFrom(_, _, _)
countEqualTypesFrom(h, idx, acc) ==
    IF idx > Len(h) THEN acc
    ELSE countEqualTypesFrom(h, idx + 1,
             IF idx = 1 \/ getType(h[idx]) = getType(h[idx - 1])
             THEN acc + 1 ELSE 0)

countEqualTypes(h) == countEqualTypesFrom(h, 1, 0)

\* handNumbers: the sparse array of lines 139-143, index -> count.
RECURSIVE handNumbersFrom(_, _, _, _)
handNumbersFrom(h, numbers, idx, acc) ==
    IF idx > Len(h) THEN acc
    ELSE LET index == indexOf(numbers, getNumber(h[idx]))
             cnt == IF index \in DOMAIN acc /\ acc[index] # 0
                    THEN acc[index] + 1 ELSE 1
         IN handNumbersFrom(h, numbers, idx + 1,
                [k \in DOMAIN acc \cup {index} |->
                     IF k = index THEN cnt ELSE acc[k]])

handNumbers(h, numbers) == handNumbersFrom(h, numbers, 1, [k \in {} |-> 0])

countEqualNumber(arr, count) ==
    Cardinality({k \in DOMAIN arr : arr[k] = count})

\* hasOrder, lines 145-148: map to indices, sort ascending, every step +1.
hasOrder(h, numbers) ==
    LET idxs == [i \in 1..Len(h) |-> indexOf(numbers, getNumber(h[i]))]
        arr == SortSeq(idxs, LAMBDA a, b : a < b)
    IN \A i \in 1..Len(arr) : i = 1 \/ arr[i] = arr[i - 1] + 1

hasOneType(h) == countEqualTypes(h) = 5

\* The if / else-if chain of lines 151-162.
pokerRankOf(order, oneType, hn) ==
    IF order /\ oneType THEN StraightFlush
    ELSE IF order THEN Straight
    ELSE IF oneType THEN Flush
    ELSE IF countEqualNumber(hn, 2) # 0 /\ countEqualNumber(hn, 3) # 0
         THEN FullHouse
    ELSE IF countEqualNumber(hn, 2) = 1 THEN OnePair
    ELSE IF countEqualNumber(hn, 2) = 2 THEN TwoPairs
    ELSE IF countEqualNumber(hn, 3) # 0 THEN ThreeOfKind
    ELSE IF countEqualNumber(hn, 4) # 0 THEN FourOfKind
    ELSE HighCard

getPokerHandRank(h) ==
    pokerRankOf(hasOrder(h, numbersFor(h)), hasOneType(h),
                handNumbers(h, numbersFor(h)))

\* The deck: rank values 2..14 (11 = J, 12 = Q, 13 = K, 14 = A) by suits.
RankName(r) ==
    IF r = 14 THEN <<"A">> ELSE numbersBase[r - 1]

CardStr(r, s) == RankName(r) \o <<s>>

PokerIdle ==
    /\ hand = <<>>
    /\ pokerRank = -1

PokerCall ==
    /\ pc = "poker"
    /\ pokerRank' = getPokerHandRank(hand)
    /\ pc' = "done"
    /\ UNCHANGED <<hand, notPoker>>

\* The hands the model deals.  The ranks in play are the first ranks of
\* rankPriority, which lists the ace and the ranks next to it first, so
\* that the wheel, the ace-high straight and the hands that would wrap
\* around the ace are all dealt.
SortedRanks == 10
ShuffledRanks == 5

rankPriority == <<14, 2, 3, 4, 5, 13, 12, 11, 10, 6, 7, 8, 9>>
SuitSeq == <<"H", "D", "C", "S">>
ShuffledSuits == {"H", "D"}

RanksInPlay(k) == {rankPriority[i] : i \in 1..(IF k < 13 THEN k ELSE 13)}

\* The cards of the first k ranks, as a sequence (rank by rank).
DeckSeq(k) ==
    [c \in 1..(4 * Cardinality(RanksInPlay(k))) |->
        CardStr(rankPriority[((c - 1) \div 4) + 1], SuitSeq[((c - 1) % 4) + 1])]

\* Five distinct cards of DeckSeq(SortedRanks), in the order of the deck.
IsSortedHand(h) ==
    LET deck == DeckSeq(SortedRanks)
        D == Len(deck)
    IN \E i1 \in 1..D : \E i2 \in (i1 + 1)..D : \E i3 \in (i2 + 1)..D :
       \E i4 \in (i3 + 1)..D : \E i5 \in (i4 + 1)..D :
           h = <<deck[i1], deck[i2], deck[i3], deck[i4], deck[i5]>>

\* Five distinct cards of two suits and the first ShuffledRanks ranks, in
\* every order.
IsShuffledHand(h) ==
    LET deck == {CardStr(r, s) : r \in RanksInPlay(ShuffledRanks),
                                 s \in ShuffledSuits}
    IN \E c1 \in deck : \E c2 \in deck \ {c1} : \E c3 \in deck \ {c1, c2} :
       \E c4 \in deck \ {c1, c2, c3} : \E c5 \in deck \ {c1, c2, c3, c4} :
           h = <<c1, c2, c3, c4, c5>>

PokerInit ==
    /\ IsSortedHand(hand) \/ IsShuffledHand(hand)
    /\ pokerRank = -1

--------------------------------------------------------------------------
(* expandBraces, src/task/10-katas-1-tasks.js:75-111                       *)

MaxBraceLen == 6

BraceAlphabet == {"a", "b", "{", "}", ","}

\* Inputs that hold the replacement patterns of String.prototype.replace.
MaxDollarLen == 7

DollarAlphabet == {"{", "}", ",", "$", "&"}

\* The passes of the while loop the model follows; a loop that is still
\* running after that many passes is left where it is.
MaxPasses == 5

IsBraceChar(c) == c = "{" \/ c = "}"

\* getMatch(PATTERN, line) with PATTERN = /({[^{}]*})/: the leftmost "{"
\* whose next brace character is a "}", as <<start, end>>; << >> for null.
getMatch(line) ==
    LET closes(i, j) ==
            /\ line[i] = "{"
            /\ line[j] = "}"
            /\ \A k \in (i + 1)..(j - 1) : ~IsBraceChar(line[k])
        starts == {i \in 1..Len(line) : \E j \in (i + 1)..Len(line) : closes(i, j)}
    IN IF starts = {} THEN <<>>
       ELSE LET i == CHOOSE x \in starts : \A y \in starts : x <= y
                j == CHOOSE y \in (i + 1)..Len(line) : closes(i, y)
            IN <<i, j>>

\* String.prototype.split(','): the pieces between the commas, in order
\* (one piece, the string itself, when there is no comma).
RECURSIVE splitComma(_, _)
splitComma(s, piece) ==
    IF s = <<>> THEN <<piece>>
    ELSE IF Head(s) = "," THEN <<piece>> \o splitComma(Tail(s), <<>>)
    ELSE splitComma(Tail(s), Append(piece, Head(s)))

\* openBracket: bracket.slice(1, -1).split(',') (CASH only memoizes it).
openBracket(bracket) == splitComma(SubSeq(bracket, 2, Len(bracket) - 1), <<>>)

\* The 1-based index of the first occurrence of template in line, 0 if none.
indexOfSub(line, template) ==
    LET at(i) == SubSeq(line, i, i + Len(template) - 1) = template
        hits == {i \in 1..(Len(line) - Len(template) + 1) : at(i)}
    IN IF hits = {} THEN 0 ELSE CHOOSE i \in hits : \A k \in hits : i <= k

\* The replacement text line.replace builds from the string arg: "$$" stands
\* for "$" and "$&" for the matched substring; every other character stands
\* for itself (the patterns "$`", "$'" and "$1".. need characters that the
\* inputs here do not hold).
RECURSIVE getSubstitution(_, _)
getSubstitution(matched, arg) ==
    IF arg = <<>> THEN <<>>
    ELSE IF Len(arg) >= 2 /\ arg[1] = "$" /\ arg[2] = "$"
         THEN <<"$">> \o getSubstitution(matched, SubSeq(arg, 3, Len(arg)))
    ELSE IF Len(arg) >= 2 /\ arg[1] = "$" /\ arg[2] = "&"
         THEN matched \o getSubstitution(matched, SubSeq(arg, 3, Len(arg)))
    ELSE <<Head(arg)>> \o getSubstitution(matched, Tail(arg))

\* line.replace(template, arg) with a string template: the first occurrence
\* is replaced by the replacement text of arg.
replaceFirst(line, template, arg) ==
    LET i == indexOfSub(line, template)
    IN IF i = 0 THEN line
       ELSE SubSeq(line, 1, i - 1) \o getSubstitution(template, arg)
                \o SubSeq(line, i + Len(template), Len(line))

combine(line, template, args) ==
    [k \in 1..Len(args) |-> replaceFirst(line, template, args[k])]

replaceBracket(line) ==
    LET m == getMatch(line)
    IN IF m = <<>> THEN <<line>>
       ELSE LET bracket == SubSeq(line, m[1], m[2])
            IN combine(line, bracket, openBracket(bracket))

\* combinations.reduce((acc, comb) => acc.concat(...comb), []).
RECURSIVE flatten(_)
flatten(ss) == IF ss = <<>> THEN <<>> ELSE Head(ss) \o flatten(Tail(ss))

\* new Set(array): the distinct elements in the order of first insertion.
RECURSIVE setOrder(_, _)
setOrder(arr, acc) ==
    IF arr = <<>> THEN acc
    ELSE setOrder(Tail(arr),
                  IF \E i \in 1..Len(acc) : acc[i] = Head(arr)
                  THEN acc ELSE Append(acc, Head(arr)))

\* Balanced braces: the inputs of the doc comment.
RECURSIVE depthOk(_, _)
depthOk(s, d) ==
    IF s = <<>> THEN d = 0
    ELSE IF Head(s) = "{" THEN depthOk(Tail(s), d + 1)
    ELSE IF Head(s) = "}" THEN d > 0 /\ depthOk(Tail(s), d - 1)
    ELSE depthOk(Tail(s), d)

IsBalanced(s) == depthOk(s, 0)

BraceInit ==
    /\ str \in {s \in SeqsBetween(BraceAlphabet, 0, MaxBraceLen)
                        \cup SeqsBetween(DollarAlphabet, 1, MaxDollarLen) :
                   IsBalanced(s)}
    /\ combinations = <<str>>
    /\ flag = TRUE
    /\ passes = 0
    /\ braceSet = <<>>
    /\ braceOut = <<>>

BraceIdle ==
    /\ str = <<>>
    /\ combinations = <<>>
    /\ flag = FALSE
    /\ passes = 0
    /\ braceSet = <<>>
    /\ braceOut = <<>>

\* One pass of the while loop of findBracets, lines 101-105.
BracePass ==
    /\ pc = "findBracets"
    /\ flag
    /\ passes < MaxPasses
    /\ LET mapped == [k \in 1..Len(combinations) |->
                         replaceBracket(combinations[k])]
       IN /\ flag' = \A k \in 1..Len(mapped) : Len(mapped[k]) # 1
          /\ combinations' = flatten(mapped)
    /\ passes' = passes + 1
    /\ UNCHANGED <<pc, str, braceSet, braceOut, notBrace>>

\* The loop has ended: findBracets returns and the Set is built, line 110.
BraceReturn ==
    /\ pc = "findBracets"
    /\ ~flag
    /\ braceSet' = setOrder(combinations, <<>>)
    /\ pc' = "yield"
    /\ UNCHANGED <<str, combinations, flag, passes, braceOut, notBrace>>

\* yield* hands the consumer the next element of the Set.
BraceYield ==
    /\ pc = "yield"
    /\ Len(braceOut) < Len(braceSet)
    /\ braceOut' = Append(braceOut, braceSet[Len(braceOut) + 1])
    /\ UNCHANGED <<pc, str, combinations, flag, passes, braceSet, notBrace>>

\* The Set is exhausted: the generator is done.
BraceDone ==
    /\ pc = "yield"
    /\ Len(braceOut) = Len(braceSet)
    /\ pc' = "done"
    /\ UNCHANGED <<braceVars, notBrace>>

--------------------------------------------------------------------------
(* The idle values of the functions modelled below.                        *)

ZigIdle ==
    /\ n = 0
    /\ zigStep = 1
    /\ diagonalLength = 0
    /\ counter = -1
    /\ diagonals = <<>>
    /\ zigZagMatrix = <<>>
    /\ zi = 0
    /\ zj = 0

RangeIdle ==
    /\ nums = <<>>
    /\ numsBefore = <<>>
    /\ rangesRet = <<>>
    /\ calls = 0

BankIdle ==
    /\ bankAccount = <<>>
    /\ bankDigits = <<>>
    /\ bankRet = -1

WrapIdle ==
    /\ text = <<>>
    /\ columns = 0
    /\ lines = <<>>
    /\ wrapOut = <<>>

FigIdle ==
    /\ figure = <<>>
    /\ figTiling = <<>>
    /\ figLines = <<>>
    /\ figIdx = 0
    /\ height = 0
    /\ widths = <<>>
    /\ figOut = <<>>

--------------------------------------------------------------------------
(* getZigZagMatrix, src/task/10-katas-1-tasks.js:141-163                   *)

MaxN == 6

\* Mutant of zigNextStep: the step turns one diagonal too late.
zigNextStepLate(i, dim, step) == IF i = dim + 1 THEN -1 ELSE step

\* Line 149: if (i === n) step = -1.
zigNextStep(i, dim, step) == IF i = dim THEN -1 ELSE step

\* Line 151: Array.from(Array(diagonalLength), () => counter += 1), the
\* values counter + 1 .. counter + len.
zigDiagonal(len, cnt) == [k \in 1..len |-> cnt + k]

\* Mutant of zigTake: the ends of the diagonals are taken the other way
\* round.
zigTakeSwapped(diagonal, i, j) ==
    IF diagonal = <<>> THEN -1
    ELSE IF (i + j) % 2 # 0 THEN diagonal[Len(diagonal)]
    ELSE Head(diagonal)

\* Line 158: odd diagonals are consumed from the front (shift), even ones
\* from the back (pop); -1 stands for the undefined of an empty array.
zigTake(diagonal, i, j) ==
    IF diagonal = <<>> THEN -1
    ELSE IF (i + j) % 2 # 0 THEN Head(diagonal)
    ELSE diagonal[Len(diagonal)]

zigRest(diagonal, i, j) ==
    IF diagonal = <<>> THEN <<>>
    ELSE IF (i + j) % 2 # 0 THEN Tail(diagonal)
    ELSE SubSeq(diagonal, 1, Len(diagonal) - 1)

ZigInit ==
    /\ n \in 1..MaxN
    /\ zigZagMatrix = [r \in 1..n |-> [c \in 1..n |-> 0]]
    /\ zigStep = 1
    /\ diagonalLength = 0
    /\ counter = -1
    /\ diagonals = <<>>
    /\ zi = 0
    /\ zj = 0

\* One iteration of the first for loop, lines 148-153.
ZigDiagonal ==
    /\ pc = "zigDiagonals"
    /\ zi < n + n - 1
    /\ LET step == zigNextStep(zi, n, zigStep)
           len == diagonalLength + step
       IN /\ zigStep' = step
          /\ diagonalLength' = len
          /\ diagonals' = Append(diagonals, zigDiagonal(len, counter))
          /\ counter' = counter + (IF len > 0 THEN len ELSE 0)
    /\ zi' = zi + 1
    /\ UNCHANGED <<pc, n, zigZagMatrix, zj, notZig>>

\* The first loop ends and the nested loops start, line 155.
ZigDiagonalsEnd ==
    /\ pc = "zigDiagonals"
    /\ zi = n + n - 1
    /\ pc' = "zigFill"
    /\ zi' = 0
    /\ zj' = 0
    /\ UNCHANGED <<n, zigStep, diagonalLength, counter, diagonals,
                   zigZagMatrix, notZig>>

\* One iteration of the inner loop, lines 157-158, and the loop steps.
ZigFill ==
    /\ pc = "zigFill"
    /\ zi < n
    /\ zj < n
    /\ LET diagonal == diagonals[zi + zj + 1]
       IN /\ zigZagMatrix' =
                 [zigZagMatrix EXCEPT ![zi + 1][zj + 1] = zigTake(diagonal, zi, zj)]
          /\ diagonals' =
                 [diagonals EXCEPT ![zi + zj + 1] = zigRest(diagonal, zi, zj)]
    /\ IF zj + 1 < n
       THEN zj' = zj + 1 /\ zi' = zi
       ELSE zj' = 0 /\ zi' = zi + 1
    /\ UNCHANGED <<pc, n, zigStep, diagonalLength, counter, notZig>>

\* return zigZagMatrix, line 162.
ZigReturn ==
    /\ pc = "zigFill"
    /\ zi = n
    /\ pc' = "done"
    /\ UNCHANGED <<zigVars, notZig>>

--------------------------------------------------------------------------
(* extractRanges, src/task/10-katas-1-tasks.js:223-240                     *)

MaxNum == 10
NegNums == 1
MaxCalls == 2

\* The number Infinity, pushed on line 224: greater than every integer of
\* the model, and left unchanged by + 1.
Infinity == 1000000

jsPlus1(x) == IF x = Infinity THEN Infinity ELSE x + 1

\* Number to string: the decimal digits, "-" before a negative number.
RECURSIVE natStr(_)
natStr(x) ==
    IF x < 10 THEN <<Digits[x + 1]>>
    ELSE Append(natStr(x \div 10), Digits[(x % 10) + 1])

numStr(x) ==
    IF x = Infinity THEN <<"I", "n", "f", "i", "n", "i", "t", "y">>
    ELSE IF x < 0 THEN <<"-">> \o natStr(0 - x)
    ELSE natStr(x)

\* Array.prototype.join(): the elements' strings with "," between them.
RECURSIVE joinComma(_)
joinComma(strs) ==
    IF strs = <<>> THEN <<>>
    ELSE IF Len(strs) = 1 THEN Head(strs)
    ELSE Head(strs) \o <<",">> \o joinComma(Tail(strs))

\* Mutant of rangeToString: the dash is used from two values on.
rangeToStringFromTwo(arr) ==
    IF Len(arr) > 1
    THEN numStr(arr[1]) \o <<"-">> \o numStr(arr[Len(arr)])
    ELSE joinComma([k \in 1..Len(arr) |-> numStr(arr[k])])

\* toString of line 226.
rangeToString(arr) ==
    IF Len(arr) > 2
    THEN numStr(arr[1]) \o <<"-">> \o numStr(arr[Len(arr)])
    ELSE joinComma([k \in 1..Len(arr) |-> numStr(arr[k])])

\* The reduce of lines 229-237, from the 0-based index endIndex on; the
\* result is the array ranges.
RECURSIVE rangesReduce(_, _, _, _, _)
rangesReduce(arr, endIndex, acc, startIndex, ranges) ==
    IF endIndex >= Len(arr) THEN ranges
    ELSE LET value == arr[endIndex + 1]
         IN IF jsPlus1(acc) < value
            THEN rangesReduce(arr, endIndex + 1, value, endIndex,
                     Append(ranges, SubSeq(arr, startIndex + 1, endIndex)))
            ELSE rangesReduce(arr, endIndex + 1, value, startIndex, ranges)

\* The string returned for the array arr as it is after the push of line
\* 224 (reduce without an initial value starts at index 1 with acc = arr[0]).
extractRangesString(arr) ==
    LET ranges == rangesReduce(arr, 1, arr[1], 0, <<>>)
    IN joinComma([k \in 1..Len(ranges) |-> rangeToString(ranges[k])])

\* The ascending sequence of the elements of a set of integers.
RECURSIVE ascending(_)
ascending(S) ==
    IF S = {} THEN <<>>
    ELSE LET m == CHOOSE x \in S : \A y \in S : x <= y
         IN <<m>> \o ascending(S \ {m})

RangeInit ==
    /\ nums \in {ascending(S) : S \in SUBSET ((0 - NegNums)..MaxNum)}
    /\ numsBefore = nums
    /\ rangesRet = <<>>
    /\ calls = 0

\* One call extractRanges(nums) by the owner of the array nums.
RangeCall ==
    /\ pc = "ranges"
    /\ calls < MaxCalls
    /\ nums' = Append(nums, Infinity)
    /\ rangesRet' = extractRangesString(nums')
    /\ calls' = calls + 1
    /\ UNCHANGED <<pc, numsBefore, notRange>>

--------------------------------------------------------------------------
(* parseBankAccount, src/task/11-katas-2-tasks.js:36-60                    *)

MaxNonZero == 2

\* const nums, lines 37-48: the glyph of digit d is bankNums[d + 1].
bankNums ==
    << <<" ", "_", " ", "|", " ", "|", "|", "_", "|">>,
       <<" ", " ", " ", " ", " ", "|", " ", " ", "|">>,
       <<" ", "_", " ", " ", "_", "|", "|", "_", " ">>,
       <<" ", "_", " ", " ", "_", "|", " ", "_", "|">>,
       <<" ", " ", " ", "|", "_", "|", " ", " ", "|">>,
       <<" ", "_", " ", "|", "_", " ", " ", "_", "|">>,
       <<" ", "_", " ", "|", "_", " ", "|", "_", "|">>,
       <<" ", "_", " ", " ", " ", "|", " ", " ", "|">>,
       <<" ", "_", " ", "|", "_", "|", "|", "_", "|">>,
       <<" ", "_", " ", "|", "_", "|", " ", "_", "|">> >>

\* String.prototype.split(sep) for a one-character separator.
RECURSIVE splitOn(_, _, _)
splitOn(s, sep, piece) ==
    IF s = <<>> THEN <<piece>>
    ELSE IF Head(s) = sep THEN <<piece>> \o splitOn(Tail(s), sep, <<>>)
    ELSE splitOn(Tail(s), sep, Append(piece, Head(s)))

\* line.split(/(.{3})/).filter(Boolean): the consecutive 3-character chunks
\* of the line, then what is left of it when that is not empty.
RECURSIVE bankChunks(_)
bankChunks(line) ==
    IF line = <<>> THEN <<>>
    ELSE IF Len(line) < 3 THEN <<line>>
    ELSE <<SubSeq(line, 1, 3)>> \o bankChunks(SubSeq(line, 4, Len(line)))

\* line.forEach((subline, idx) => acc[idx] += subline), line 53; += on an
\* index past the end of acc starts from the string 'undefined'.
RECURSIVE bankAddLine(_, _, _)
bankAddLine(acc, chunks, idx) ==
    IF idx > Len(chunks) THEN acc
    ELSE bankAddLine(
             IF idx <= Len(acc)
             THEN [acc EXCEPT ![idx] = acc[idx] \o chunks[idx]]
             ELSE Append(acc, <<"u", "n", "d", "e", "f", "i", "n", "e", "d">>
                                  \o chunks[idx]),
             chunks, idx + 1)

\* The reduce of lines 52-55 over the lines, from Array(9).fill('').
RECURSIVE bankColumns(_, _)
bankColumns(lineChunks, acc) ==
    IF lineChunks = <<>> THEN acc
    ELSE bankColumns(Tail(lineChunks), bankAddLine(acc, Head(lineChunks), 1))

\* .reduce((acc, num) => (acc * 10) + num), line 57, without initial value.
RECURSIVE bankValueFrom(_, _)
bankValueFrom(ds, acc) ==
    IF ds = <<>> THEN acc ELSE bankValueFrom(Tail(ds), acc * 10 + Head(ds))

\* Mutant of bankValue: the first digit is taken as the least significant.
RECURSIVE bankValueReversedFrom(_, _)
bankValueReversedFrom(ds, acc) ==
    IF ds = <<>> THEN acc
    ELSE bankValueReversedFrom(SubSeq(ds, 1, Len(ds) - 1),
                               acc * 10 + ds[Len(ds)])

bankValueReversed(ds) ==
    bankValueReversedFrom(SubSeq(ds, 1, Len(ds) - 1), ds[Len(ds)])

bankValue(ds) == bankValueFrom(Tail(ds), Head(ds))

parseBankAccount(account) ==
    LET split == splitOn(account, "\n", <<>>)
        lineChunks == [k \in 1..Len(split) |-> bankChunks(split[k])]
        glyphs == bankColumns(lineChunks, [k \in 1..9 |-> <<>>])
        ds == [k \in 1..Len(glyphs) |-> indexOf(bankNums, glyphs[k])]
    IN bankValue(ds)

\* The 3-line block that shows the digits ds: row by row the glyphs' rows
\* side by side, every row ended by a line break.
RenderAccount(ds) ==
    LET row(r) == flatten([k \in 1..Len(ds) |->
                     SubSeq(bankNums[ds[k] + 1], 3 * r + 1, 3 * r + 3)])
    IN row(0) \o <<"\n">> \o row(1) \o <<"\n">> \o row(2) \o <<"\n">>

\* The account numbers of the doc comment.
DocAccounts ==
    { <<1, 2, 3, 4, 5, 6, 7, 8, 9>>,
      <<0, 2, 3, 0, 5, 6, 7, 8, 9>>,
      <<8, 2, 3, 8, 5, 6, 9, 8, 9>> }

\* The characters the glyphs are drawn with.
GlyphChars == {" ", "_", "|"}

\* The block of an account with one character of one glyph redrawn:
\* character cell (1..9, row by row) of the glyph at place (1..9).
RedrawnAccount(ds, place, cell, ch) ==
    LET at == ((cell - 1) \div 3) * 28 + 3 * (place - 1) + ((cell - 1) % 3) + 1
    IN [RenderAccount(ds) EXCEPT ![at] = ch]

\* The glyph a redrawn character leaves at its place.
RedrawnGlyph(ds, place, cell, ch) ==
    [bankNums[ds[place] + 1] EXCEPT ![cell] = ch]

\* The accounts that get a glyph redrawn: the examples and nine times the
\* same digit.
RedrawnBases == DocAccounts \cup {[k \in 1..9 |-> d] : d \in 0..9}

\* Nine digits of which at most MaxNonZero are not 0, and the examples;
\* and blocks in which one glyph has a character redrawn so that the glyph
\* is none of the table (bankDigits is then empty: the block shows no
\* digits).
BankInit ==
    /\ \/ /\ \/ \E P \in SUBSET (1..9) :
                   /\ Cardinality(P) <= MaxNonZero
                   /\ \E f \in [P -> 1..9] :
                          bankDigits =
                              [k \in 1..9 |-> IF k \in P THEN f[k] ELSE 0]
             \/ bankDigits \in DocAccounts
          /\ bankAccount = RenderAccount(bankDigits)
       \/ /\ bankDigits = <<>>
          /\ \E ds \in RedrawnBases, place \in 1..9, cell \in 1..9,
                ch \in GlyphChars :
                 /\ \A d \in 1..10 :
                        bankNums[d] # RedrawnGlyph(ds, place, cell, ch)
                 /\ bankAccount = RedrawnAccount(ds, place, cell, ch)
    /\ bankRet = -1

BankCall ==
    /\ pc = "bank"
    /\ bankRet' = parseBankAccount(bankAccount)
    /\ pc' = "done"
    /\ UNCHANGED <<bankAccount, bankDigits, notBank>>

--------------------------------------------------------------------------
(* wrapText, src/task/11-katas-2-tasks.js:87-90                            *)

MaxTextLen == 6
MaxColumns == 4

TextAlphabet == {"a", "b", " ", "\n"}

\* The characters \s matches, and the line terminators "." does not match.
IsWhitespace(c) == c \in {" ", "\n", "\t", "\r"}
IsLineTerminator(c) == c \in {"\n", "\r"}

\* Mutant of wrapMatchLen: the shortest line that ends before whitespace.
wrapMatchLenShortest(txt, p, cols) ==
    LET fits == {k \in 1..cols :
                    /\ p + k - 1 <= Len(txt)
                    /\ \A q \in p..(p + k - 1) : ~IsLineTerminator(txt[q])
                    /\ (p + k = Len(txt) + 1 \/ IsWhitespace(txt[p + k]))}
    IN IF p > Len(txt) \/ IsWhitespace(txt[p]) \/ fits = {} THEN 0
       ELSE CHOOSE k \in fits : \A m \in fits : k <= m

\* The length of the match of (?!\s).{1,columns}(?=(\s|$)) that starts at
\* the 1-based position p, 0 when there is none: the first character is no
\* whitespace, then the longest run of 1..columns characters of one line
\* that is followed by whitespace or by the end of the text.
wrapMatchLen(txt, p, cols) ==
    LET fits == {k \in 1..cols :
                    /\ p + k - 1 <= Len(txt)
                    /\ \A q \in p..(p + k - 1) : ~IsLineTerminator(txt[q])
                    /\ (p + k = Len(txt) + 1 \/ IsWhitespace(txt[p + k]))}
    IN IF p > Len(txt) \/ IsWhitespace(txt[p]) \/ fits = {} THEN 0
       ELSE CHOOSE k \in fits : \A m \in fits : k >= m

\* text.match(regexp) with the g flag: the successive matches, each search
\* starting where the last match ended; << >> stands for null.
RECURSIVE wrapMatchAll(_, _, _)
wrapMatchAll(txt, p, cols) ==
    IF p > Len(txt) THEN <<>>
    ELSE LET k == wrapMatchLen(txt, p, cols)
         IN IF k = 0 THEN wrapMatchAll(txt, p + 1, cols)
            ELSE <<SubSeq(txt, p, p + k - 1)>> \o wrapMatchAll(txt, p + k, cols)

WrapInit ==
    /\ text \in SeqsBetween(TextAlphabet, 0, MaxTextLen)
    /\ columns \in 1..MaxColumns
    /\ lines = <<>>
    /\ wrapOut = <<>>

\* The first next(): line 88 runs.  match returns null when nothing
\* matches, and iterating null on line 89 throws a TypeError.
WrapMatch ==
    /\ pc = "wrap"
    /\ lines' = wrapMatchAll(text, 1, columns)
    /\ pc' = IF lines' = <<>> THEN "threw" ELSE "yield"
    /\ UNCHANGED <<text, columns, wrapOut, notWrap>>

\* for (const line of lines) yield line.
WrapYield ==
    /\ pc = "yield"
    /\ Len(wrapOut) < Len(lines)
    /\ wrapOut' = Append(wrapOut, lines[Len(wrapOut) + 1])
    /\ UNCHANGED <<pc, text, columns, lines, notWrap>>

WrapDone ==
    /\ pc = "yield"
    /\ Len(wrapOut) = Len(lines)
    /\ pc' = "done"
    /\ UNCHANGED <<wrapVars, notWrap>>

--------------------------------------------------------------------------
(* getFigureRectangles, src/task/11-katas-2-tasks.js:196-225               *)

MaxFigSize == 6

\* String.prototype.repeat.
repeat(c, k) == [i \in 1..k |-> c]

\* buildRectangle(width, height), lines 197-210.
buildRectangle(width, hgt) ==
    LET innerWidth == width - 2
        innerHeight == hgt - 2
        border == <<"+">> \o repeat("-", innerWidth) \o <<"+", "\n">>
        middle == <<"|">> \o repeat(" ", innerWidth) \o <<"|", "\n">>
    IN border \o flatten([k \in 1..innerHeight |-> middle]) \o border

\* line.split(/\+|\|/): the pieces between the "+" and "|" of the line.
RECURSIVE splitBorders(_, _)
splitBorders(line, piece) ==
    IF line = <<>> THEN <<piece>>
    ELSE IF Head(line) \in {"+", "|"}
         THEN <<piece>> \o splitBorders(Tail(line), <<>>)
    ELSE splitBorders(Tail(line), Append(piece, Head(line)))

\* Line 223: .slice(1, -1).map((innerWidth) => innerWidth.length).
lineWidths(line) ==
    LET pieces == splitBorders(line, <<>>)
    IN [k \in 1..(Len(pieces) - 2) |-> Len(pieces[k + 1])]

\* A tiling is a set of rectangles <<x, y, w, h>>: the corner columns are
\* x and x + w, the corner rows y and y + h; neighbours share their border.
\* The figure that draws it: "+" at the corners, "-" and "|" on the edges.
figChar(tiling, x, y) ==
    IF \E t \in tiling : x \in {t[1], t[1] + t[3]} /\ y \in {t[2], t[2] + t[4]}
    THEN "+"
    ELSE IF \E t \in tiling :
                /\ y \in {t[2], t[2] + t[4]}
                /\ t[1] < x /\ x < t[1] + t[3]
    THEN "-"
    ELSE IF \E t \in tiling :
                /\ x \in {t[1], t[1] + t[3]}
                /\ t[2] < y /\ y < t[2] + t[4]
    THEN "|"
    ELSE " "

RenderFigure(tiling, W, H) ==
    flatten([r \in 1..(H + 1) |->
                [c \in 1..(W + 1) |-> figChar(tiling, c - 1, r - 1)]
                    \o <<"\n">>])

\* The sets of inner border positions that cut 0..size into parts, every
\* part with room for an interior (borders at least 2 apart).
CutSets(size) ==
    {C \in SUBSET (2..(size - 2)) :
        \A a, b \in C : a # b => (a - b >= 2 \/ b - a >= 2)}

\* The parts 0..size is cut into by C, as the set of <<start, length>>.
Parts(C, size) ==
    LET marks == C \cup {0, size}
    IN {<<a, b - a>> : a \in marks, b \in marks} \cap
       {p \in (0..size) \X (1..size) :
           /\ p[1] \in marks /\ p[1] + p[2] \in marks
           /\ \A m \in marks : ~(p[1] < m /\ m < p[1] + p[2])}

\* Rows of rectangles (every row cut into columns of its own) and columns
\* of rectangles (every column cut into rows of its own).
RowTilings(W, H) ==
    UNION {
        {UNION {{<<col[1], row[1], col[2], row[2]>> : col \in Parts(f[row], W)} :
                    row \in Parts(Y, H)} :
            f \in [Parts(Y, H) -> CutSets(W)]} :
        Y \in CutSets(H)}

ColumnTilings(W, H) ==
    UNION {
        {UNION {{<<col[1], row[1], col[2], row[2]>> : row \in Parts(f[col], H)} :
                    col \in Parts(X, W)} :
            f \in [Parts(X, W) -> CutSets(H)]} :
        X \in CutSets(W)}

FigInit ==
    /\ \E W \in 2..MaxFigSize : \E H \in 2..MaxFigSize :
           /\ figTiling \in RowTilings(W, H) \cup ColumnTilings(W, H)
           /\ figure = RenderFigure(figTiling, W, H)
    /\ figLines = <<>>
    /\ figIdx = 0
    /\ height = 0
    /\ widths = <<>>
    /\ figOut = <<>>

\* figure = figure.split('\n'), line 214.
FigSplit ==
    /\ pc = "figure"
    /\ figLines' = splitOn(figure, "\n", <<>>)
    /\ pc' = "figLines"
    /\ UNCHANGED <<figure, figTiling, figIdx, height, widths, figOut, notFig>>

\* One iteration of the for loop, lines 215-224, with the rectangles it
\* yields.
FigLine ==
    /\ pc = "figLines"
    /\ figIdx < Len(figLines)
    /\ LET line == figLines[figIdx + 1]
           h == height + 1
       IN /\ IF \E k \in 1..Len(line) : line[k] = "+"
             THEN /\ figOut' = figOut \o
                        [k \in 1..Len(widths) |-> buildRectangle(widths[k] + 2, h)]
                  /\ height' = 1
             ELSE /\ figOut' = figOut
                  /\ height' = h
          /\ widths' = lineWidths(line)
    /\ figIdx' = figIdx + 1
    /\ UNCHANGED <<pc, figure, figTiling, figLines, notFig>>

FigDone ==
    /\ pc = "figLines"
    /\ figIdx = Len(figLines)
    /\ pc' = "done"
    /\ UNCHANGED <<figVars, notFig>>

--------------------------------------------------------------------------
(* cssSelectorBuilder and ElementNode, src/task/08-objects-tasks.js:113-302 *)

\* The arguments the calls are made with: the empty string and two names.
SelValues == {<<>>, <<"a">>, <<"b">>}

\* The calls that return are followed up to this many parts.
MaxSelParts == 5

\* selectorSequence.
seqEmpty == -1
seqElement == 0
seqId == 1
seqClass == 2
seqAttr == 3
seqPseudoClass == 4
seqPseudoElement == 5

\* constant: the prefixes and the postfix of the parts.
idPrefix == <<"#">>
classPrefix == <<".">>
attrPrefix == <<"[">>
attrPostfix == <<"]">>
pseudoClassPrefix == <<":">>
pseudoElementPrefix == <<":", ":">>

\* Map.prototype.set: a new key goes to the end, a key already held keeps
\* its place and takes the new value.  A Map is a sequence of <<key, value>>.
mapSet(map, key, val) ==
    IF \E i \in 1..Len(map) : map[i][1] = key
    THEN [i \in 1..Len(map) |-> IF map[i][1] = key THEN <<key, val>> ELSE map[i]]
    ELSE Append(map, <<key, val>>)

\* Array.from(map.values()).join('').
RECURSIVE joinValues(_)
joinValues(map) ==
    IF map = <<>> THEN <<>> ELSE Head(map)[2] \o joinValues(Tail(map))

\* ElementNode.stringify.
selStringify ==
    selElement \o selId \o joinValues(selClasses) \o joinValues(selAttrs)
        \o joinValues(selPseudoClasses) \o selPseudoElement

\* The constructor of ElementNode (with no call made yet).
SelInit ==
    /\ selId = <<>>
    /\ selElement = <<>>
    /\ selClasses = <<>>
    /\ selAttrs = <<>>
    /\ selPseudoClasses = <<>>
    /\ selPseudoElement = <<>>
    /\ selLastOperation = seqEmpty
    /\ selParts = <<>>
    /\ selLast = [op |-> seqEmpty, value |-> <<>>, threw |-> "none"]

SelIdle == SelInit

\* A setter that lets a call pass when it is one place out of order.
incorrectSequenceByTwo(operation) == selLastOperation > operation + 1

\* The test of the setter lastOperation, line 220.
incorrectSequence(operation) == selLastOperation > operation

\* A call that throws: no field of the node has been assigned.
selThrow(operation, value, error) ==
    /\ selLast' = [op |-> operation, value |-> value, threw |-> error]
    /\ UNCHANGED <<pc, selId, selElement, selClasses, selAttrs,
                   selPseudoClasses, selPseudoElement, selLastOperation,
                   selParts>>

\* A call that returns: the setter has stored the operation.
selReturn(operation, value) ==
    /\ selLastOperation' = operation
    /\ selParts' = Append(selParts, <<operation, value>>)
    /\ selLast' = [op |-> operation, value |-> value, threw |-> "none"]
    /\ pc' = "selector"

\* The first call is made on cssSelectorBuilder, whose checkNode constructs
\* the node; the later ones are made on the node the call before returned.
selCallable ==
    /\ pc \in {"builder", "selector"}
    /\ Len(selParts) < MaxSelParts

SelElement ==
    /\ selCallable
    /\ \E value \in SelValues :
          IF selElement # <<>> THEN selThrow(seqElement, value, "countOccur")
          ELSE IF incorrectSequence(seqElement)
               THEN selThrow(seqElement, value, "incorrectSequence")
          ELSE /\ selReturn(seqElement, value)
               /\ selElement' = value
               /\ UNCHANGED <<selId, selClasses, selAttrs, selPseudoClasses,
                              selPseudoElement>>
    /\ UNCHANGED notSel

SelId ==
    /\ selCallable
    /\ \E value \in SelValues :
          IF selId # <<>> THEN selThrow(seqId, value, "countOccur")
          ELSE IF incorrectSequence(seqId)
               THEN selThrow(seqId, value, "incorrectSequence")
          ELSE /\ selReturn(seqId, value)
               /\ selId' = idPrefix \o value
               /\ UNCHANGED <<selElement, selClasses, selAttrs,
                              selPseudoClasses, selPseudoElement>>
    /\ UNCHANGED notSel

SelClass ==
    /\ selCallable
    /\ \E value \in SelValues :
          IF incorrectSequence(seqClass)
          THEN selThrow(seqClass, value, "incorrectSequence")
          ELSE /\ selReturn(seqClass, value)
               /\ selClasses' = mapSet(selClasses, value, classPrefix \o value)
               /\ UNCHANGED <<selId, selElement, selAttrs, selPseudoClasses,
                              selPseudoElement>>
    /\ UNCHANGED notSel

SelAttr ==
    /\ selCallable
    /\ \E value \in SelValues :
          IF incorrectSequence(seqAttr)
          THEN selThrow(seqAttr, value, "incorrectSequence")
          ELSE /\ selReturn(seqAttr, value)
               /\ selAttrs' = mapSet(selAttrs, value,
                                     attrPrefix \o value \o attrPostfix)
               /\ UNCHANGED <<selId, selElement, selClasses, selPseudoClasses,
                              selPseudoElement>>
    /\ UNCHANGED notSel

SelPseudoClass ==
    /\ selCallable
    /\ \E value \in SelValues :
          IF incorrectSequence(seqPseudoClass)
          THEN selThrow(seqPseudoClass, value, "incorrectSequence")
          ELSE /\ selReturn(seqPseudoClass, value)
               /\ selPseudoClasses' = mapSet(selPseudoClasses, value,
                                             pseudoClassPrefix \o value)
               /\ UNCHANGED <<selId, selElement, selClasses, selAttrs,
                              selPseudoElement>>
    /\ UNCHANGED notSel

SelPseudoElement ==
    /\ selCallable
    /\ \E value \in SelValues :
          IF selPseudoElement # <<>>
          THEN selThrow(seqPseudoElement, value, "countOccur")
          ELSE IF incorrectSequence(seqPseudoElement)
               THEN selThrow(seqPseudoElement, value, "incorrectSequence")
          ELSE /\ selReturn(seqPseudoElement, value)
               /\ selPseudoElement' = pseudoElementPrefix \o value
               /\ UNCHANGED <<selId, selElement, selClasses, selAttrs,
                              selPseudoClasses>>
    /\ UNCHANGED notSel

--------------------------------------------------------------------------
(* Specifications: one per function.                                       *)

NextDominoes == DomForEach \/ DomReturn

InitDominoes ==
    /\ pc = "dominoes"
    /\ DomInit
    /\ PokerIdle /\ BraceIdle /\ ZigIdle /\ RangeIdle /\ BankIdle /\ WrapIdle
    /\ FigIdle /\ SelIdle

SpecDominoes == InitDominoes /\ [][NextDominoes]_vars


NextPoker == PokerCall

InitPoker ==
    /\ pc = "poker"
    /\ PokerInit
    /\ DomIdle /\ BraceIdle /\ ZigIdle /\ RangeIdle /\ BankIdle /\ WrapIdle
    /\ FigIdle /\ SelIdle

SpecPoker == InitPoker /\ [][NextPoker]_vars

NextBraces == BracePass \/ BraceReturn \/ BraceYield \/ BraceDone

InitBraces ==
    /\ pc = "findBracets"
    /\ BraceInit
    /\ DomIdle /\ PokerIdle /\ ZigIdle /\ RangeIdle /\ BankIdle /\ WrapIdle
    /\ FigIdle /\ SelIdle

SpecBraces == InitBraces /\ [][NextBraces]_vars

NextZigZag == ZigDiagonal \/ ZigDiagonalsEnd \/ ZigFill \/ ZigReturn

InitZigZag ==
    /\ pc = "zigDiagonals"
    /\ ZigInit
    /\ DomIdle /\ PokerIdle /\ BraceIdle /\ RangeIdle /\ BankIdle /\ WrapIdle
    /\ FigIdle /\ SelIdle

SpecZigZag == InitZigZag /\ [][NextZigZag]_vars

NextRanges == RangeCall

InitRanges ==
    /\ pc = "ranges"
    /\ RangeInit
    /\ DomIdle /\ PokerIdle /\ BraceIdle /\ ZigIdle /\ BankIdle /\ WrapIdle
    /\ FigIdle /\ SelIdle

SpecRanges == InitRanges /\ [][NextRanges]_vars

NextBank == BankCall

InitBank ==
    /\ pc = "bank"
    /\ BankInit
    /\ DomIdle /\ PokerIdle /\ BraceIdle /\ ZigIdle /\ RangeIdle /\ WrapIdle
    /\ FigIdle /\ SelIdle

SpecBank == InitBank /\ [][NextBank]_vars

NextWrap == WrapMatch \/ WrapYield \/ WrapDone

InitWrap ==
    /\ pc = "wrap"
    /\ WrapInit
    /\ DomIdle /\ PokerIdle /\ BraceIdle /\ ZigIdle /\ RangeIdle /\ BankIdle
    /\ FigIdle /\ SelIdle

SpecWrap == InitWrap /\ [][NextWrap]_vars

NextFigure == FigSplit \/ FigLine \/ FigDone

InitFigure ==
    /\ pc = "figure"
    /\ FigInit
    /\ DomIdle /\ PokerIdle /\ BraceIdle /\ ZigIdle /\ RangeIdle /\ BankIdle
    /\ WrapIdle /\ SelIdle

SpecFigure == InitFigure /\ [][NextFigure]_vars

NextSelector ==
    \/ SelElement
    \/ SelId
    \/ SelClass
    \/ SelAttr
    \/ SelPseudoClass
    \/ SelPseudoElement

InitSelector ==
    /\ pc = "builder"
    /\ SelInit
    /\ DomIdle /\ PokerIdle /\ BraceIdle /\ ZigIdle /\ RangeIdle /\ BankIdle
    /\ WrapIdle /\ FigIdle

SpecSelector == InitSelector /\ [][NextSelector]_vars

--------------------------------------------------------------------------
(* Claims.                                                                 *)

\* The contract: some ordering and orientation of all the tiles is a chain.
Perms(k) == {p \in [1..k -> 1..k] : \A i, j \in 1..k : p[i] = p[j] => i = j}

IsChain(ds, p, flip) ==
    LET L(i) == IF flip[i] THEN ds[p[i]][2] ELSE ds[p[i]][1]
        R(i) == IF flip[i] THEN ds[p[i]][1] ELSE ds[p[i]][2]
    IN \A i \in 1..(Len(ds) - 1) : R(i) = L(i + 1)

ChainExists(ds) ==
    \E p \in Perms(Len(ds)) : \E flip \in [1..Len(ds) -> BOOLEAN] :
        IsChain(ds, p, flip)

\* C1: canDominoesMakeRow returns true exactly when all the tiles can be laid
\* in one chain whose neighbouring faces are equal.
C1_ChainIff ==
    pc = "done" => (domRet = ChainExists(dominoes))

\* C1, the particular case: tiles that split into two groups sharing no pip
\* value are refused.
C1_SplitRefused ==
    pc = "done" =>
        ((\E G \in (SUBSET (1..Len(dominoes))) \ {{}, 1..Len(dominoes)} :
             \A i \in G : \A j \in (1..Len(dominoes)) \ G :
                 {dominoes[i][1], dominoes[i][2]}
                     \cap {dominoes[j][1], dominoes[j][2]} = {})
         => domRet = FALSE)


\* The rules of poker, read off the cards themselves: a card is its rank
\* (2..14, the ace 14) followed by its suit.
RankOf(card) ==
    IF Len(card) = 3 THEN 10
    ELSE CASE card[1] = "A" -> 14
           [] card[1] = "K" -> 13
           [] card[1] = "Q" -> 12
           [] card[1] = "J" -> 11
           [] OTHER -> DigitVal(card[1])

SuitOf(card) == card[Len(card)]

\* Five consecutive ranks, the ace high, or low in A-2-3-4-5 only.
IsStraightRanks(R) ==
    \/ \E lo \in 2..10 : R = lo..(lo + 4)
    \/ R = {14, 2, 3, 4, 5}

\* The highest category satisfied by five cards whose ranks have the
\* multiplicities mult (a set of <<rank, count>>), by the precedence of the
\* rules.
CategoryOf(mult, flush, straight) ==
    LET pairs == Cardinality({m \in mult : m[2] >= 2})
    IN IF straight /\ flush THEN StraightFlush
       ELSE IF \E m \in mult : m[2] = 4 THEN FourOfKind
       ELSE IF \E m, k \in mult : m[2] = 3 /\ k[2] = 2 THEN FullHouse
       ELSE IF flush THEN Flush
       ELSE IF straight THEN Straight
       ELSE IF \E m \in mult : m[2] = 3 THEN ThreeOfKind
       ELSE IF pairs = 2 THEN TwoPairs
       ELSE IF pairs = 1 THEN OnePair
       ELSE HighCard

MultOf(rs) ==
    {<<rs[i], Cardinality({j \in 1..5 : rs[j] = rs[i]})>> : i \in 1..5}

HighestCategory(h) ==
    CategoryOf(MultOf([i \in 1..5 |-> RankOf(h[i])]),
               \A i \in 1..5 : SuitOf(h[i]) = SuitOf(h[1]),
               IsStraightRanks({RankOf(h[i]) : i \in 1..5}))

RanksOf(h) == {RankOf(h[i]) : i \in 1..Len(h)}

\* C2: for five distinct cards in any order, getPokerHandRank returns the
\* highest category the hand satisfies, the ace being low in the wheel only.
C2_HighestCategory ==
    pc = "done" /\ hand # <<>> => pokerRank = HighestCategory(hand)

\* C2 witness: a wheel dealt out of rank order has been ranked a straight.
C2_WheelRanked ==
    /\ pc = "done"
    /\ hand # <<>>
    /\ RanksOf(hand) = {14, 2, 3, 4, 5}
    /\ RankOf(hand[1]) = 3 /\ RankOf(hand[2]) = 14 /\ RankOf(hand[5]) = 2
    /\ SuitOf(hand[1]) # SuitOf(hand[2])
    /\ pokerRank = Straight

\* Brace expansion as the contract states it: one alternative is chosen for
\* every group.  matchClose is the index of the "}" closing the "{" at 1.
RECURSIVE closeFrom(_, _, _)
closeFrom(s, i, d) ==
    IF s[i] = "{" THEN closeFrom(s, i + 1, d + 1)
    ELSE IF s[i] = "}" THEN (IF d = 1 THEN i ELSE closeFrom(s, i + 1, d - 1))
    ELSE closeFrom(s, i + 1, d)

matchClose(s) == closeFrom(s, 1, 0)

\* The alternatives of a group body: the pieces between its commas that
\* lie outside every nested group.
RECURSIVE topAlternatives(_, _, _)
topAlternatives(s, piece, d) ==
    IF s = <<>> THEN {piece}
    ELSE IF Head(s) = "," /\ d = 0
         THEN {piece} \cup topAlternatives(Tail(s), <<>>, 0)
    ELSE topAlternatives(Tail(s), Append(piece, Head(s)),
             IF Head(s) = "{" THEN d + 1
             ELSE IF Head(s) = "}" THEN d - 1 ELSE d)

RECURSIVE Expansions(_)
Expansions(s) ==
    IF s = <<>> THEN {<<>>}
    ELSE IF Head(s) # "{"
         THEN {<<Head(s)>> \o t : t \in Expansions(Tail(s))}
    ELSE LET j == matchClose(s)
             alts == topAlternatives(SubSeq(s, 2, j - 1), <<>>, 0)
             heads == UNION {Expansions(a) : a \in alts}
             tails == Expansions(SubSeq(s, j + 1, Len(s)))
         IN {h \o t : h \in heads, t \in tails}

\* C3: the strings expandBraces yields are exactly the strings obtained by
\* choosing one alternative for every group; none holds a brace.
\* (Checked on the inputs in which no group is the empty "{}".)
NoEmptyGroup(s) == \A i \in 1..(Len(s) - 1) : ~(s[i] = "{" /\ s[i + 1] = "}")

C3_AllChoices ==
    pc = "done" /\ str # <<>> /\ NoEmptyGroup(str) =>
        /\ Range(braceOut) = Expansions(str)
        /\ \A k \in 1..Len(braceOut) :
               \A i \in 1..Len(braceOut[k]) : ~IsBraceChar(braceOut[k][i])

\* C8: getZigZagMatrix(n) returns n rows of n cells, and every integer of
\* 0..n*n-1 is the value of exactly one cell.
C8_Permutation ==
    pc = "done" /\ n >= 1 =>
        /\ Len(zigZagMatrix) = n
        /\ \A r \in 1..n : Len(zigZagMatrix[r]) = n
        /\ \A v \in 0..(n * n - 1) :
               Cardinality({rc \in (1..n) \X (1..n) :
                               zigZagMatrix[rc[1]][rc[2]] = v}) = 1

\* C8 witness: the matrix of dimension 3 of the doc comment was returned.
C8_Returned3 ==
    /\ pc = "done"
    /\ n = 3
    /\ zigZagMatrix = <<<<0, 1, 5>>, <<2, 4, 6>>, <<3, 7, 8>>>>

\* The maximal runs of consecutive integers of an ascending sequence, as
\* the set of their <<first index, last index>>.
MaximalRuns(s) ==
    {r \in (1..Len(s)) \X (1..Len(s)) :
        /\ r[1] <= r[2]
        /\ \A k \in r[1]..(r[2] - 1) : s[k + 1] = s[k] + 1
        /\ (r[1] = 1 \/ s[r[1]] # s[r[1] - 1] + 1)
        /\ (r[2] = Len(s) \/ s[r[2] + 1] # s[r[2]] + 1)}

RunToken(s, r) ==
    IF r[2] - r[1] >= 2 THEN numStr(s[r[1]]) \o <<"-">> \o numStr(s[r[2]])
    ELSE IF r[2] - r[1] = 1 THEN numStr(s[r[1]]) \o <<",">> \o numStr(s[r[2]])
    ELSE numStr(s[r[1]])

\* The tokens of the runs that start at index i or later, comma-joined.
RECURSIVE RunsText(_, _)
RunsText(s, i) ==
    IF i > Len(s) THEN <<>>
    ELSE LET r == CHOOSE x \in MaximalRuns(s) : x[1] = i
         IN RunToken(s, r)
                \o (IF r[2] < Len(s) THEN <<",">> ELSE <<>>)
                \o RunsText(s, r[2] + 1)

\* C4: for an ascending sequence of distinct integers extractRanges returns
\* the comma-joined tokens of its maximal runs: start-end for three or more,
\* the numbers themselves for runs of one or two, "" for the empty sequence.
C4_RunTokens ==
    pc = "ranges" /\ calls = 1 => rangesRet = RunsText(numsBefore, 1)

\* C4 witness: the doc example [0, 1, 2, 5, 7, 8, 9] returned '0-2,5,7-9'.
C4_DocExample ==
    /\ pc = "ranges"
    /\ calls = 1
    /\ numsBefore = <<0, 1, 2, 5, 7, 8, 9>>
    /\ rangesRet = <<"0", "-", "2", ",", "5", ",", "7", "-", "9">>

\* C10: extractRanges leaves the caller's array as it was (same length,
\* same elements), so repeated calls see the same input.
C10_ArgumentUntouched ==
    pc = "ranges" /\ calls >= 1 => nums = numsBefore

\* The number written d0 d1 ... d8, the first digit the most significant.
RECURSIVE DecimalValue(_)
DecimalValue(ds) ==
    IF ds = <<>> THEN 0
    ELSE DecimalValue(SubSeq(ds, 1, Len(ds) - 1)) * 10 + ds[Len(ds)]

\* The doc comment's first example, as written there.
DocBlock123456789 ==
    <<" ", " ", " ", " ", "_", " ", " ", "_", " ", " ", " ", " ", " ", "_",
      " ", " ", "_", " ", " ", "_", " ", " ", "_", " ", " ", "_", " ",
      "\n", " ", " ", "|", " ", "_", "|", " ", "_", "|", "|", "_", "|",
      "|", "_", " ", "|", "_", " ", " ", " ", "|", "|", "_", "|", "|", "_",
      "|", "\n", " ", " ", "|", "|", "_", " ", " ", "_", "|", " ", " ",
      "|", " ", "_", "|", "|", "_", "|", " ", " ", "|", "|", "_", "|", " ",
      "_", "|", "\n">>

\* C9: the block built from the table glyphs of nine digits parses to the
\* number those digits write (leading zeros dropping out), and the ten
\* glyphs of the table are pairwise distinct.
C9_ParsesDigits ==
    /\ \A d, e \in 1..10 : bankNums[d] = bankNums[e] => d = e
    /\ pc = "done" /\ bankDigits # <<>> => bankRet = DecimalValue(bankDigits)

\* C9 witness: the doc comment's block for 123456789 was parsed to it, and
\* a block with leading zeros was parsed.
C9_DocExampleParsed ==
    /\ pc = "done"
    /\ bankAccount = DocBlock123456789
    /\ bankDigits = <<1, 2, 3, 4, 5, 6, 7, 8, 9>>
    /\ bankRet = 123456789

\* The words of a text: its maximal runs of characters that are no
\* whitespace.
RECURSIVE WordsOf(_, _)
WordsOf(txt, word) ==
    IF txt = <<>> THEN (IF word = <<>> THEN <<>> ELSE <<word>>)
    ELSE IF IsWhitespace(Head(txt))
         THEN (IF word = <<>> THEN <<>> ELSE <<word>>) \o WordsOf(Tail(txt), <<>>)
    ELSE WordsOf(Tail(txt), Append(word, Head(txt)))

RECURSIVE JoinSpace(_)
JoinSpace(ws) ==
    IF ws = <<>> THEN <<>>
    ELSE IF Len(ws) = 1 THEN Head(ws)
    ELSE Head(ws) \o <<" ">> \o JoinSpace(Tail(ws))

\* Words separated by single spaces, none longer than cols.
SingleSpaced(txt, cols) ==
    /\ txt # <<>>
    /\ txt = JoinSpace(WordsOf(txt, <<>>))
    /\ \A k \in 1..Len(WordsOf(txt, <<>>)) : Len(WordsOf(txt, <<>>)[k]) <= cols

\* Greedy packing: every line is the longest prefix of the words not yet
\* placed that, joined by single spaces, is at most cols long.
RECURSIVE GreedyLines(_, _)
GreedyLines(ws, cols) ==
    IF ws = <<>> THEN <<>>
    ELSE LET fit == {m \in 1..Len(ws) : Len(JoinSpace(SubSeq(ws, 1, m))) <= cols}
             k == CHOOSE m \in fit : \A x \in fit : m >= x
         IN <<JoinSpace(SubSeq(ws, 1, k))>>
                \o GreedyLines(SubSeq(ws, k + 1, Len(ws)), cols)

\* C6: for words separated by single spaces, none longer than columns,
\* wrapText yields exactly the lines of greedy packing (and does not throw).
C6_GreedyPacking ==
    columns >= 1 /\ SingleSpaced(text, columns) =>
        /\ pc # "threw"
        /\ pc = "done" => wrapOut = GreedyLines(WordsOf(text, <<>>), columns)

\* C6 witness: 'ab a b' wrapped at 4 columns gave 'ab a' and 'b'.
C6_Wrapped ==
    /\ pc = "done"
    /\ text = <<"a", "b", " ", "a", " ", "b">>
    /\ columns = 4
    /\ wrapOut = << <<"a", "b", " ", "a">>, <<"b">> >>

\* C7: whatever the whitespace between the words (none longer than
\* columns), the yielded lines joined by single spaces are the text with
\* every whitespace run collapsed to one space and the ends trimmed, and no
\* yielded line begins or ends with whitespace.  (Checked on the texts that
\* themselves begin and end with a word.)
C7_NormalizedText ==
    /\ pc = "done"
    /\ columns >= 1
    /\ text # <<>> /\ ~IsWhitespace(text[1]) /\ ~IsWhitespace(text[Len(text)])
    /\ \A k \in 1..Len(WordsOf(text, <<>>)) : Len(WordsOf(text, <<>>)[k]) <= columns
    => /\ JoinSpace(wrapOut) = JoinSpace(WordsOf(text, <<>>))
       /\ \A k \in 1..Len(wrapOut) :
              /\ ~IsWhitespace(wrapOut[k][1])
              /\ ~IsWhitespace(wrapOut[k][Len(wrapOut[k])])

\* The rendering of one rectangle of a tiling, on its own.
RenderTile(t) == RenderFigure({<<0, 0, t[3], t[4]>>}, t[3], t[4])

\* C5: for a tiling, whatever the heights of rectangles standing side by
\* side, getFigureRectangles yields exactly one rendering per rectangle of
\* the tiling, with its width and height, and nothing else.
C5_OnePerRectangle ==
    pc = "done" /\ figure # <<>> =>
        /\ Len(figOut) = Cardinality(figTiling)
        /\ \A t \in figTiling :
               Cardinality({k \in 1..Len(figOut) : figOut[k] = RenderTile(t)})
                   = Cardinality({u \in figTiling : u[3] = t[3] /\ u[4] = t[4]})

\* The number of "{" characters of a string.
RECURSIVE CountOpen(_)
CountOpen(s) ==
    IF s = <<>> THEN 0
    ELSE (IF Head(s) = "{" THEN 1 ELSE 0) + CountOpen(Tail(s))

\* After p passes that left the loop of findBracets running, every
\* candidate holds at most (number of "{" of the input) - p of them.
EveryPassReduces ==
    pc = "findBracets" /\ flag =>
        \A k \in 1..Len(combinations) :
            CountOpen(combinations[k]) <= CountOpen(str) - passes

\* C11: expandBraces terminates, because every pass of the loop of
\* findBracets that leaves the loop running has taken one "{" out of every
\* candidate: the loop makes at most (number of "{" of the input) + 1 passes.
C11_PassesBounded == passes <= CountOpen(str) + 1

\* On the inputs without "$" every pass reduces and the bound holds.
C11_LiteralInputs ==
    (\A i \in 1..Len(str) : str[i] # "$") =>
        EveryPassReduces /\ C11_PassesBounded


\* The kinds of the calls that returned before the last call was made.
PartsBefore ==
    IF selLast.threw = "none" /\ selParts # <<>>
    THEN SubSeq(selParts, 1, Len(selParts) - 1)
    ELSE selParts

\* C12: on one selector object the calls that returned have their kinds in
\* the order element, id, class, attribute, pseudo-class, pseudo-element
\* (never decreasing); a call of a kind that comes before the kind of the
\* last call that returned throws; and a second element, id or pseudoElement
\* call throws (both calls made with a non-empty value).
C12_OrderedParts ==
    /\ \A i \in 1..(Len(selParts) - 1) : selParts[i][1] <= selParts[i + 1][1]
    /\ (pc = "selector" /\ PartsBefore # <<>>
            /\ selLast.op < PartsBefore[Len(PartsBefore)][1])
           => selLast.threw # "none"
    /\ (pc = "selector" /\ selLast.value # <<>>
            /\ selLast.op \in {seqElement, seqId, seqPseudoElement}
            /\ \E i \in 1..Len(PartsBefore) :
                   /\ PartsBefore[i][1] = selLast.op
                   /\ PartsBefore[i][2] # <<>>)
           => selLast.threw # "none"

\* An id call made after element, class, class and attr calls has thrown,
\* and the node still stringifies to what those four calls built.
C12_LateIdRefused ==
    /\ pc = "selector"
    /\ selLast = [op |-> seqId, value |-> <<"a">>, threw |-> "incorrectSequence"]
    /\ Len(selParts) = 4
    /\ selStringify = <<"a", ".", "a", ".", "b", "[", "b", "]">>

\* The cell of a matrix that holds a value, as <<row, column>> (from 1).
CellOf(matrix, dim, v) ==
    CHOOSE rc \in (1..dim) \X (1..dim) : matrix[rc[1]][rc[2]] = v

Abs(x) == IF x < 0 THEN -x ELSE x

\* C13: the values of getZigZagMatrix(n) trace one continuous zig-zag path.
\* All the values of anti-diagonal d are smaller than all those of
\* anti-diagonal d + 1; down an odd anti-diagonal the values grow by 1 with
\* every row, down an even one they fall by 1 with every row; and the cells
\* holding k and k + 1 are horizontal, vertical or diagonal neighbours.
C13_ZigZagPath ==
    pc = "done" /\ n >= 1 =>
        LET cells == (1..n) \X (1..n)
            diag(rc) == (rc[1] - 1) + (rc[2] - 1)
            at(rc) == zigZagMatrix[rc[1]][rc[2]]
        IN /\ \A p \in cells : \A q \in cells :
                  diag(q) = diag(p) + 1 => at(p) < at(q)
           /\ \A p \in cells :
                  (p[1] < n /\ p[2] > 1) =>
                      zigZagMatrix[p[1] + 1][p[2] - 1] =
                          (IF diag(p) % 2 = 1 THEN at(p) + 1 ELSE at(p) - 1)
           /\ \A k \in 0..(n * n - 2) :
                  LET p == CellOf(zigZagMatrix, n, k)
                      q == CellOf(zigZagMatrix, n, k + 1)
                  IN /\ Abs(p[1] - q[1]) <= 1
                     /\ Abs(p[2] - q[2]) <= 1

\* C13 witness: the matrix of dimension 4 of the doc comment was returned.
C13_Returned4 ==
    /\ pc = "done"
    /\ n = 4
    /\ zigZagMatrix = <<<<0, 1, 5, 6>>, <<2, 4, 7, 12>>,
                        <<3, 8, 11, 13>>, <<9, 10, 14, 15>>>>

\* The glyph at a place (1..9) of a block of three lines of 27 characters:
\* its three characters of the first line, then of the second and third.
GlyphAt(account, place) ==
    LET row(r) == SubSeq(account, 28 * r + 3 * place - 2, 28 * r + 3 * place)
    IN row(0) \o row(1) \o row(2)

HasUnmatchedGlyph(account) ==
    \E place \in 1..9 : GlyphAt(account, place) \notin Range(bankNums)

\* C14: when one of the nine glyphs of the input matches no entry of the
\* table, parseBankAccount fails with an error: it returns no number.
C14_MalformedRefused ==
    HasUnmatchedGlyph(bankAccount) => pc # "done"

\* What the call returns for such a block: the number folded from the
\* digits with -1 in the place of every glyph that is not of the table.
C14_MinusOneFolded ==
    pc = "done" /\ bankAccount # <<>> =>
        bankRet = bankValue([place \in 1..9 |->
                      indexOf(bankNums, GlyphAt(bankAccount, place))])

==========================================================================
